---- MODULE Spec2Model ----
(***************************************************************************)
(* A model of src/torusLang.c: the Q4.4 fixed-point codec (encode8,        *)
(* decode8, add8), the bytecode VM (vm_step, vm_run_line), the micro-JIT   *)
(* (djb_hash, jit_line, patch_vm) and the line arena driven by repl().     *)
(*                                                                         *)
(* Bytes (uint8_t, num8_t) are the integers 0..255; a text is the tuple of *)
(* the character codes before its terminating NUL.  A line's bc field      *)
(* holds the live bytes bc[0..bc_len-1]; the bytes of the C array at and   *)
(* beyond bc_len are never read (vm_run_line stops at bc_len, emit_byte    *)
(* overwrites at bc_len) and are not represented.                          *)
(***************************************************************************)
EXTENDS Integers, Sequences, FiniteSets, TLC

VARIABLES
    arena,      \* arena[0..BUF_LINES-1]: [text, hash, bc, bc_len]
    last_line,  \* index of the slot the next line is read into
    ledger,     \* ledger.landauer
    stack,      \* stack[0..STACK_SZ-1] of bytes
    sp,         \* count of live stack elements
    frame,      \* the call in progress or last completed: [fn, arg, ret, i]
    nsub,       \* history: number of lines submitted so far
    compiled    \* history: compiled[s] is the text slot s held at its last jit_line call

vars == <<arena, last_line, ledger, stack, sp, frame, nsub, compiled>>

(* ---------- bounds of the model ---------------------------------------- *)
\* Number of arena slots (1024 in the source; the wraparound is the same).
BUF_LINES == 2
\* How many of the texts of TextList a submitted line is drawn from.
NumTexts == 3
\* Cap on the ledger (a uint64 in the source, never near its limit).
MaxLedger == 1
\* The codec's inputs x are the multiples of 1/(16 * 2^XBITS).
XBITS == 2
\* The codec's inputs are dense over |16x| <= MaxScaled.
MaxScaled == 1700
\* Pre-seeded VM states hold at most MaxSeed live values.
MaxSeed == 3
\* Hand-built instruction buffers hold at most MaxCode bytes.
MaxCode == 3
\* Generated texts are concatenations of at most MaxPieces pieces.
MaxPieces == 5

(* ---------- 0. CONFIG --------------------------------------------------- *)
LINE_SZ == 256
BC_SZ == 128
STACK_SZ == 256
U16 == 65536
INT16_MIN == -32768
INT16_MAX == 32767

\* (int8_t)p for a byte p, and (uint8_t)v for v in -128..127.
ToInt8(p) == IF p >= 128 THEN p - 256 ELSE p
ToUint8(v) == (v + 256) % 256

(* ---------- 3. NUMBER FORMAT (Q4.4 fixed) ------------------------------- *)
\* A real x is held as the integer x * 16 * Den.
Den == 2 ^ XBITS

\* (int16_t)d for the double d = n / m (m > 0): truncation toward zero.
TruncDiv(n, m) == IF n >= 0 THEN n \div m ELSE -((-n) \div m)

\* A faulty encode8: the clamp to [-128, 127] left out.
encode8_noclamp(x) ==
    LET q == TruncDiv(2 * x + Den, 2 * Den)
    IN  IF q < INT16_MIN \/ q > INT16_MAX THEN 0..255 ELSE {q % 256}

\* encode8(x): the set of bytes the call can return.  x*16.0 + 0.5 is
\* (2x + Den) / (2 Den) in the model's units; converting a double whose
\* integral part is outside int16_t is undefined, so any byte may result.
encode8(x) ==
    LET q == TruncDiv(2 * x + Den, 2 * Den)
    IN  IF q < INT16_MIN \/ q > INT16_MAX
        THEN 0..255
        ELSE {ToUint8(IF q > 127 THEN 127 ELSE IF q < -128 THEN -128 ELSE q)}

\* decode8(p) = ((int8_t)p) / 16.0, in the same units as x.
decode8(p) == ToInt8(p) * Den

\* A faulty add8: the sum wraps instead of saturating.
add8_wrap(a, b, l) ==
    [ret |-> (ToInt8(a) + ToInt8(b)) % 256, landauer |-> l + 1]

\* add8(a, b, l): the returned byte and the ledger after the call.
add8(a, b, l) ==
    LET r == ToInt8(a) + ToInt8(b)
    IN  [ret |-> ToUint8(IF r > 127 THEN 127 ELSE IF r < -128 THEN -128 ELSE r),
         landauer |-> l + 1]

(* ---------- 4. BYTECODE VM ---------------------------------------------- *)
OP_POSIT_ADD == 1
OP_QUINE_MOMENT == 32
OP_HALT == 255

\* A faulty vm_step: an underflowing ADD is skipped, not a stop.
vm_step_skip(op, vm) ==
    IF op = OP_POSIT_ADD
    THEN IF vm.sp < 2
         THEN [cont |-> TRUE, vm |-> vm]
         ELSE LET s == vm.sp - 1
                  r == add8(vm.stack[s - 1], vm.stack[s], vm.ledger)
              IN  [cont |-> TRUE,
                   vm |-> [sp |-> s,
                           stack |-> [vm.stack EXCEPT ![s - 1] = r.ret],
                           ledger |-> r.landauer]]
    ELSE IF op = OP_QUINE_MOMENT
    THEN [cont |-> TRUE, vm |-> [vm EXCEPT !.ledger = @ + 1]]
    ELSE [cont |-> FALSE, vm |-> vm]

\* A faulty vm_step: ADD stores the sum but does not pop.
vm_step_nopop(op, vm) ==
    IF op = OP_POSIT_ADD
    THEN IF vm.sp < 2
         THEN [cont |-> FALSE, vm |-> vm]
         ELSE LET s == vm.sp - 1
                  r == add8(vm.stack[s - 1], vm.stack[s], vm.ledger)
              IN  [cont |-> TRUE,
                   vm |-> [sp |-> vm.sp,
                           stack |-> [vm.stack EXCEPT ![s - 1] = r.ret],
                           ledger |-> r.landauer]]
    ELSE IF op = OP_QUINE_MOMENT
    THEN [cont |-> TRUE, vm |-> [vm EXCEPT !.ledger = @ + 1]]
    ELSE [cont |-> FALSE, vm |-> vm]

\* A faulty vm_step: HALT is a no-op and execution continues.
vm_step_nohalt(op, vm) ==
    IF op = OP_POSIT_ADD
    THEN IF vm.sp < 2
         THEN [cont |-> FALSE, vm |-> vm]
         ELSE LET s == vm.sp - 1
                  r == add8(vm.stack[s - 1], vm.stack[s], vm.ledger)
              IN  [cont |-> TRUE,
                   vm |-> [sp |-> s,
                           stack |-> [vm.stack EXCEPT ![s - 1] = r.ret],
                           ledger |-> r.landauer]]
    ELSE IF op = OP_QUINE_MOMENT
    THEN [cont |-> TRUE, vm |-> [vm EXCEPT !.ledger = @ + 1]]
    ELSE IF op = OP_HALT
    THEN [cont |-> TRUE, vm |-> vm]
    ELSE [cont |-> FALSE, vm |-> vm]

\* A faulty vm_step: MOMENT does not touch the ledger.
vm_step_nocount(op, vm) ==
    IF op = OP_POSIT_ADD
    THEN IF vm.sp < 2
         THEN [cont |-> FALSE, vm |-> vm]
         ELSE LET s == vm.sp - 1
                  r == add8(vm.stack[s - 1], vm.stack[s], vm.ledger)
              IN  [cont |-> TRUE,
                   vm |-> [sp |-> s,
                           stack |-> [vm.stack EXCEPT ![s - 1] = r.ret],
                           ledger |-> r.landauer]]
    ELSE IF op = OP_QUINE_MOMENT
    THEN [cont |-> TRUE, vm |-> vm]
    ELSE [cont |-> FALSE, vm |-> vm]

\* A faulty vm_step: MOMENT pushes a zero.
vm_step_push(op, vm) ==
    IF op = OP_POSIT_ADD
    THEN IF vm.sp < 2
         THEN [cont |-> FALSE, vm |-> vm]
         ELSE LET s == vm.sp - 1
                  r == add8(vm.stack[s - 1], vm.stack[s], vm.ledger)
              IN  [cont |-> TRUE,
                   vm |-> [sp |-> s,
                           stack |-> [vm.stack EXCEPT ![s - 1] = r.ret],
                           ledger |-> r.landauer]]
    ELSE IF op = OP_QUINE_MOMENT
    THEN [cont |-> TRUE,
          vm |-> [sp |-> vm.sp + 1,
                  stack |-> [vm.stack EXCEPT ![vm.sp] = 0],
                  ledger |-> vm.ledger + 1]]
    ELSE [cont |-> FALSE, vm |-> vm]

\* vm_step(op) on the VM state vm = [sp, stack, ledger]: whether execution
\* continues, and the state after the instruction.
vm_step(op, vm) ==
    IF op = OP_POSIT_ADD
    THEN IF vm.sp < 2
         THEN [cont |-> FALSE, vm |-> vm]
         ELSE LET s == vm.sp - 1
                  r == add8(vm.stack[s - 1], vm.stack[s], vm.ledger)
              IN  [cont |-> TRUE,
                   vm |-> [sp |-> s,
                           stack |-> [vm.stack EXCEPT ![s - 1] = r.ret],
                           ledger |-> r.landauer]]
    ELSE IF op = OP_QUINE_MOMENT
    THEN [cont |-> TRUE, vm |-> [vm EXCEPT !.ledger = @ + 1]]
    ELSE IF op = OP_HALT
    THEN [cont |-> FALSE, vm |-> vm]
    ELSE [cont |-> FALSE, vm |-> vm]

\* The loop of vm_run_line from index i (0-based) on.
RECURSIVE vm_run_from(_, _, _)
vm_run_from(L, i, vm) ==
    IF i < L.bc_len
    THEN LET s == vm_step(L.bc[i + 1], vm)
         IN  IF s.cont THEN vm_run_from(L, i + 1, s.vm) ELSE s.vm
    ELSE vm

\* The same loop, also giving the index i at which it was left.
RECURSIVE vm_stop_from(_, _, _)
vm_stop_from(L, i, vm) ==
    IF i < L.bc_len
    THEN LET s == vm_step(L.bc[i + 1], vm)
         IN  IF s.cont THEN vm_stop_from(L, i + 1, s.vm) ELSE [i |-> i, vm |-> s.vm]
    ELSE [i |-> i, vm |-> vm]

\* A faulty vm_run_line: the stack pointer is reset before the loop.
vm_run_line_reset(L, vm) == vm_run_from(L, 0, [vm EXCEPT !.sp = 0])

vm_run_line(L, vm) == vm_run_from(L, 0, vm)

\* The VM state held in the variables.
VM == [sp |-> sp, stack |-> stack, ledger |-> ledger]

\* A faulty top_of_stack: cell 0 is read whatever sp is.
top_of_stack_zero(vm) == vm.stack[0]

\* stack[sp>0 ? sp-1 : 0], the value repl() prints as top.
top_of_stack(vm) == vm.stack[IF vm.sp > 0 THEN vm.sp - 1 ELSE 0]

(* ---------- 5. MICRO-JIT ------------------------------------------------ *)
KW_ADD == <<97, 100, 100>>
KW_QUINE == <<113, 117, 105, 110, 101>>
KW_EXIT == <<101, 120, 105, 116>>

\* A uint32_t h is held as its 16-bit halves <<h \div 2^16, h % 2^16>>.
\* ((h<<5)+h) + c modulo 2^32, on that representation.
djb_round(h, c) ==
    LET lo == h[2] * 33 + c
    IN  <<(h[1] * 33 + lo \div U16) % U16, lo % U16>>

RECURSIVE djb_hash(_, _)
djb_hash(s, len) ==
    IF len = 0
    THEN <<0, 5381>>
    ELSE djb_round(djb_hash(s, len - 1), s[len])

strlen(s) == Len(s)

emit_byte(L, b) ==
    IF L.bc_len < BC_SZ
    THEN [L EXCEPT !.bc = Append(SubSeq(@, 1, L.bc_len), b), !.bc_len = @ + 1]
    ELSE L

\* A faulty skip_space: tabs are not skipped.
RECURSIVE skip_space_notab(_, _)
skip_space_notab(s, p) ==
    IF p <= Len(s) /\ s[p] = 32 THEN skip_space_notab(s, p + 1) ELSE p

\* skip_space: the position of the first character at or after p (1-based)
\* that is neither ' ' nor '\t' (Len(s)+1 is the terminating NUL).
RECURSIVE skip_space(_, _)
skip_space(s, p) ==
    IF p <= Len(s) /\ s[p] \in {32, 9} THEN skip_space(s, p + 1) ELSE p

\* A faulty strncmp_eq: the keyword must end at a separator or NUL.
strncmp_word(s, p, kw) ==
    /\ p + Len(kw) - 1 <= Len(s)
    /\ SubSeq(s, p, p + Len(kw) - 1) = kw
    /\ (p + Len(kw) <= Len(s) => s[p + Len(kw)] \in {32, 9, 10})

\* strncmp(p, kw, Len(kw)) == 0 for p a position of s.
strncmp_eq(s, p, kw) ==
    /\ p + Len(kw) - 1 <= Len(s)
    /\ SubSeq(s, p, p + Len(kw) - 1) = kw

\* A faulty jit_scan: a token that is no keyword is compiled to HALT.
RECURSIVE jit_scan_halt(_, _, _)
jit_scan_halt(s, p, L) ==
    IF p > Len(s)
    THEN L
    ELSE LET q == skip_space(s, p)
         IN  IF strncmp_eq(s, q, KW_ADD)
             THEN jit_scan_halt(s, q + 3, emit_byte(L, OP_POSIT_ADD))
             ELSE IF strncmp_eq(s, q, KW_QUINE)
             THEN jit_scan_halt(s, q + 5, emit_byte(L, OP_QUINE_MOMENT))
             ELSE IF q <= Len(s)
             THEN emit_byte(L, OP_HALT)
             ELSE L

\* The while(*p) loop of jit_line from position p on.
RECURSIVE jit_scan(_, _, _)
jit_scan(s, p, L) ==
    IF p > Len(s)
    THEN L
    ELSE LET q == skip_space(s, p)
         IN  IF strncmp_eq(s, q, KW_ADD)
             THEN jit_scan(s, q + 3, emit_byte(L, OP_POSIT_ADD))
             ELSE IF strncmp_eq(s, q, KW_QUINE)
             THEN jit_scan(s, q + 5, emit_byte(L, OP_QUINE_MOMENT))
             ELSE L

\* A faulty jit_line: the early return on an equal hash left out.
jit_line_nocache(L) ==
    LET h == djb_hash(L.text, strlen(L.text))
    IN  [line |-> jit_scan(L.text, 1, [L EXCEPT !.hash = h, !.bc_len = 0, !.bc = <<>>]),
         tokenized |-> TRUE]

\* A faulty jit_line: the new hash is not stored.
jit_line_nohash(L) ==
    LET old == L.hash
        h == djb_hash(L.text, strlen(L.text))
    IN  IF h = old
        THEN [line |-> L, tokenized |-> FALSE]
        ELSE [line |-> jit_scan(L.text, 1, [L EXCEPT !.bc_len = 0, !.bc = <<>>]),
              tokenized |-> TRUE]

\* jit_line on the line L: the line after the call, and whether the call
\* went past the hash comparison into the tokenizer.
jit_line(L) ==
    LET old == L.hash
        h == djb_hash(L.text, strlen(L.text))
    IN  IF h = old
        THEN [line |-> [L EXCEPT !.hash = h], tokenized |-> FALSE]
        ELSE [line |-> jit_scan(L.text, 1, [L EXCEPT !.hash = h, !.bc_len = 0, !.bc = <<>>]),
              tokenized |-> TRUE]

\* The for loop of patch_vm: jit_line(i) for i = from..last, in order.
RECURSIVE patch_from(_, _, _)
patch_from(a, i, last) ==
    IF i <= last
    THEN patch_from([a EXCEPT ![i] = jit_line(a[i]).line], i + 1, last)
    ELSE a

(* ---------- 1. ARENA and 7. REPL ----------------------------------------- *)
Slots == 0..(BUF_LINES - 1)

\* The lines read from stdin: "addx", "aeCx", "quine add\n",
\* "add quine add", " \tquine", "x add".
TextList ==
    << <<97, 100, 100, 120>>,
       <<97, 101, 67, 120>>,
       <<113, 117, 105, 110, 101, 32, 97, 100, 100, 10>>,
       <<97, 100, 100, 32, 113, 117, 105, 110, 101, 32, 97, 100, 100>>,
       <<32, 9, 113, 117, 105, 110, 101>>,
       <<120, 32, 97, 100, 100>> >>

Texts ==
    {TextList[k] : k \in 1..(IF NumTexts < Len(TextList) THEN NumTexts ELSE Len(TextList))}

\* The history stops counting (and the model stops submitting) one line
\* after the arena has wrapped around.
MaxSubmit == BUF_LINES + 1

\* compiled[s] before the first jit_line call on slot s.
NoText == <<-1>>

BlankLine == [text |-> <<>>, hash |-> <<0, 0>>, bc |-> <<>>, bc_len |-> 0]

Idle == [fn |-> "main", arg |-> <<>>, ret |-> <<>>, i |-> 0]

Init ==
    /\ arena = [s \in Slots |-> BlankLine]
    /\ last_line = 0
    /\ ledger = 0
    /\ stack = [k \in 0..(STACK_SZ - 1) |-> 0]
    /\ sp = 0
    /\ frame = Idle
    /\ nsub = 0
    /\ compiled = [s \in Slots |-> NoText]

\* A faulty next_line: the index stops at the last slot.
next_line_nowrap(l) == IF l + 1 < BUF_LINES THEN l + 1 ELSE l

\* last_line = (last_line+1) % BUF_LINES
next_line(l) == (l + 1) % BUF_LINES

\* fgets(arena[last_line].text, LINE_SZ, stdin)
fgets(a, l, t) == [a EXCEPT ![l].text = SubSeq(t, 1, IF Len(t) < LINE_SZ THEN Len(t) ELSE LINE_SZ - 1)]

\* submit_line(text): the line is read into slot last_line and the index
\* advances (the read and the advance of one repl() iteration).
SubmitLine(t) ==
    /\ nsub < MaxSubmit
    /\ arena' = fgets(arena, last_line, t)
    /\ last_line' = next_line(last_line)
    /\ nsub' = nsub + 1
    /\ frame' = [fn |-> "submit_line", arg |-> <<last_line, t>>, ret |-> <<>>, i |-> 0]
    /\ UNCHANGED <<ledger, stack, sp, compiled>>

\* compile_line(s): jit_line(s).
JitLine(s) ==
    LET r == jit_line(arena[s])
    IN  /\ arena' = [arena EXCEPT ![s] = r.line]
        /\ compiled' = [compiled EXCEPT ![s] = arena[s].text]
        /\ frame' = [fn |-> "jit_line", arg |-> <<s>>,
                     ret |-> [changed |-> arena[s].text # compiled[s],
                              tokenized |-> r.tokenized],
                     i |-> 0]
        /\ UNCHANGED <<last_line, ledger, stack, sp, nsub>>

\* execute_line(s): vm_run_line(&arena[s]), then the top of stack and the
\* ledger are read for display.
VmRunLine(s) ==
    LET vm == vm_run_line(arena[s], VM)
    IN  /\ vm.ledger <= MaxLedger
        /\ sp' = vm.sp
        /\ stack' = vm.stack
        /\ ledger' = vm.ledger
        /\ frame' = [fn |-> "vm_run_line", arg |-> <<s>>,
                     ret |-> <<top_of_stack(vm), vm.ledger>>, i |-> 0]
        /\ UNCHANGED <<arena, last_line, nsub, compiled>>

\* recompile_all(): patch_vm().
PatchVm ==
    /\ sp' = 0
    /\ arena' = patch_from(arena, 0, last_line)
    /\ compiled' = [s \in Slots |-> IF s <= last_line THEN arena[s].text ELSE compiled[s]]
    /\ frame' = [fn |-> "patch_vm", arg |-> <<>>,
                 ret |-> [s \in 1..(last_line + 1) |-> s - 1], i |-> 0]
    /\ UNCHANGED <<last_line, ledger, stack, nsub>>

\* One iteration of the loop of repl() on the input line t.
Repl(t) ==
    LET a1 == fgets(arena, last_line, t)
        r == jit_line(a1[last_line])
        vm == vm_run_line(r.line, VM)
    IN  /\ nsub < MaxSubmit
        /\ ~strncmp_eq(a1[last_line].text, 1, KW_EXIT)
        /\ vm.ledger <= MaxLedger
        /\ arena' = [a1 EXCEPT ![last_line] = r.line]
        /\ compiled' = [compiled EXCEPT ![last_line] = a1[last_line].text]
        /\ sp' = vm.sp
        /\ stack' = vm.stack
        /\ ledger' = vm.ledger
        /\ last_line' = next_line(last_line)
        /\ nsub' = nsub + 1
        /\ frame' = [fn |-> "repl", arg |-> <<last_line, t>>,
                     ret |-> [changed |-> a1[last_line].text # compiled[last_line],
                              tokenized |-> r.tokenized,
                              top |-> top_of_stack(vm)],
                     i |-> 0]

Next ==
    \/ \E t \in Texts : SubmitLine(t)
    \/ \E s \in Slots : JitLine(s)
    \/ \E s \in Slots : VmRunLine(s)
    \/ PatchVm
    \/ \E t \in Texts : Repl(t)

Spec == Init /\ [][Next]_vars

(* ---------- the API on a pre-seeded stack ------------------------------- *)
\* stack and sp are globals no instruction can raise; the depths some other
\* mechanism may have left: 0..MaxSeed values, or a full stack.
SeedDepths == (0..MaxSeed) \cup {STACK_SZ}

\* The lines given to a seeded VM: "addx" (compiles to [ADD]) and
\* "quine add\n" (compiles to [MOMENT, ADD]).
SeededTexts == {TextList[1], TextList[3]}

\* The zeroed arena and ledger, over a stack of n values: 127 (127/16) on
\* top of n-1 times 1 (1/16).
InitSeeded ==
    \E n \in SeedDepths :
        /\ arena = [s \in Slots |-> BlankLine]
        /\ last_line = 0
        /\ ledger = 0
        /\ stack = [k \in 0..(STACK_SZ - 1) |->
                      IF k < n - 1 THEN 1 ELSE IF k = n - 1 THEN 127 ELSE 0]
        /\ sp = n
        /\ frame = Idle
        /\ nsub = 0
        /\ compiled = [s \in Slots |-> NoText]

NextSeeded ==
    \/ \E t \in SeededTexts : SubmitLine(t)
    \/ \E s \in Slots : JitLine(s)
    \/ \E s \in Slots : VmRunLine(s)
    \/ PatchVm
    \/ \E t \in SeededTexts : Repl(t)

SpecSeeded == InitSeeded /\ [][NextSeeded]_vars

(* ---------- vm_run_line, instruction by instruction --------------------- *)
\* The bytes a pre-seeded stack holds: 1/16, 127/16, -128/16.
SeedVals == {1, 127, 128}

\* The bytes a hand-built buffer holds: the three opcodes and a byte that
\* is no opcode.
Opcodes == {OP_POSIT_ADD, OP_QUINE_MOMENT, OP_HALT, 0}

Buffers == UNION {[1..n -> Opcodes] : n \in 0..MaxCode}

\* vm_run_line(&arena[0]) is entered on a VM holding n seeded values.
InitVM ==
    \E n \in 0..MaxSeed : \E vals \in [0..(n - 1) -> SeedVals] : \E code \in Buffers :
        /\ arena = [s \in Slots |->
                      IF s = 0 THEN [BlankLine EXCEPT !.bc = code, !.bc_len = Len(code)]
                               ELSE BlankLine]
        /\ last_line = 0
        /\ ledger = 0
        /\ stack = [k \in 0..(STACK_SZ - 1) |-> IF k < n THEN vals[k] ELSE 0]
        /\ sp = n
        /\ frame = [fn |-> "vm_run_line", arg |-> <<0>>, ret |-> <<>>, i |-> 0]
        /\ nsub = 0
        /\ compiled = [s \in Slots |-> NoText]

\* The line vm_run_line is running, and whether its loop is still running.
RunLine == arena[frame.arg[1]]
Running == frame.fn = "vm_run_line" /\ frame.ret = <<>>

\* One turn of the loop: vm_step returned true.
VmStepCont ==
    /\ Running
    /\ frame.i < RunLine.bc_len
    /\ LET r == vm_step(RunLine.bc[frame.i + 1], VM)
       IN  /\ r.cont
           /\ sp' = r.vm.sp
           /\ stack' = r.vm.stack
           /\ ledger' = r.vm.ledger
           /\ frame' = [frame EXCEPT !.i = @ + 1]
    /\ UNCHANGED <<arena, last_line, nsub, compiled>>

\* One turn of the loop: vm_step returned false, the loop breaks.
VmStepBreak ==
    /\ Running
    /\ frame.i < RunLine.bc_len
    /\ LET r == vm_step(RunLine.bc[frame.i + 1], VM)
       IN  /\ ~r.cont
           /\ sp' = r.vm.sp
           /\ stack' = r.vm.stack
           /\ ledger' = r.vm.ledger
           /\ frame' = [frame EXCEPT !.ret = <<"break">>]
    /\ UNCHANGED <<arena, last_line, nsub, compiled>>

\* The loop ends at i = bc_len.
VmLoopEnd ==
    /\ Running
    /\ frame.i >= RunLine.bc_len
    /\ frame' = [frame EXCEPT !.ret = <<"end">>]
    /\ UNCHANGED <<arena, last_line, ledger, stack, sp, nsub, compiled>>

NextVM == VmStepCont \/ VmStepBreak \/ VmLoopEnd

SpecVM == InitVM /\ [][NextVM]_vars

\* vm_run_line is straight-line code in one thread: a loop turn that can be
\* taken is taken.
SpecVMFair == SpecVM /\ WF_vars(NextVM)

(* ---------- jit_line on generated texts --------------------------------- *)
\* The pieces texts are built from: "add", "quine", " ", "\t", "x", "ad".
Pieces == {KW_ADD, KW_QUINE, <<32>>, <<9>>, <<120>>, <<97, 100>>}

PieceSeqs == UNION {[1..n -> Pieces] : n \in 0..MaxPieces}

RECURSIVE Flatten(_, _)
Flatten(ps, k) == IF k > Len(ps) THEN <<>> ELSE ps[k] \o Flatten(ps, k + 1)

\* jit_line(0) is called on a zeroed slot holding the text of the pieces ps.
InitJit ==
    \E ps \in PieceSeqs :
        /\ arena = [s \in Slots |->
                      IF s = 0 THEN [BlankLine EXCEPT !.text = Flatten(ps, 1)] ELSE BlankLine]
        /\ last_line = 0
        /\ ledger = 0
        /\ stack = [k \in 0..(STACK_SZ - 1) |-> 0]
        /\ sp = 0
        /\ frame = [fn |-> "jit_line", arg |-> <<0, ps>>, ret |-> <<>>, i |-> 0]
        /\ nsub = 1
        /\ compiled = [s \in Slots |-> NoText]

JitCall ==
    /\ frame.fn = "jit_line"
    /\ frame.ret = <<>>
    /\ LET s == frame.arg[1]
           r == jit_line(arena[s])
       IN  /\ arena' = [arena EXCEPT ![s] = r.line]
           /\ compiled' = [compiled EXCEPT ![s] = arena[s].text]
           /\ frame' = [frame EXCEPT !.ret = [changed |-> arena[s].text # compiled[s],
                                              tokenized |-> r.tokenized]]
    /\ UNCHANGED <<last_line, ledger, stack, sp, nsub>>

NextJit == JitCall

SpecJit == InitJit /\ [][NextJit]_vars

(* ---------- the codec's functions on enumerated inputs ------------------ *)
\* Inputs of encode8: every x with |16x| <= MaxScaled, the x next to the
\* ends of the int16_t range, and two x beyond it.
EncodeInputs ==
    ((-(MaxScaled * Den))..(MaxScaled * Den))
    \cup {INT16_MIN * Den + k : k \in 0..(2 * Den)}
    \cup {INT16_MAX * Den - k : k \in 0..(2 * Den)}
    \cup {INT16_MAX * Den + Den, INT16_MIN * Den - 2 * Den}

\* The variables the codec does not touch.
CodecRest ==
    /\ arena = [s \in Slots |-> BlankLine]
    /\ last_line = 0
    /\ stack = [k \in 0..(STACK_SZ - 1) |-> 0]
    /\ sp = 0
    /\ nsub = 0
    /\ compiled = [s \in Slots |-> NoText]

\* A call of encode8(x), or of add8(a, b, &ledger) with the ledger at l.
InitCodec ==
    \/ \E x \in EncodeInputs :
          /\ frame = [fn |-> "encode8", arg |-> <<x>>, ret |-> <<>>, i |-> 0]
          /\ ledger = 0
          /\ CodecRest
    \/ \E a \in 0..255 : \E b \in 0..255 : \E l \in 0..(MaxLedger - 1) :
          /\ frame = [fn |-> "add8", arg |-> <<a, b, l>>, ret |-> <<>>, i |-> 0]
          /\ ledger = l
          /\ CodecRest

\* p = encode8(x)
Encode8Call ==
    /\ frame.fn = "encode8"
    /\ frame.ret = <<>>
    /\ \E p \in encode8(frame.arg[1]) : frame' = [frame EXCEPT !.ret = <<p>>]
    /\ UNCHANGED <<arena, last_line, ledger, stack, sp, nsub, compiled>>

\* y = decode8(p), on the byte encode8 returned
Decode8Call ==
    /\ frame.fn = "encode8"
    /\ Len(frame.ret) = 1
    /\ frame' = [frame EXCEPT !.ret = <<frame.ret[1], decode8(frame.ret[1])>>]
    /\ UNCHANGED <<arena, last_line, ledger, stack, sp, nsub, compiled>>

\* r = add8(a, b, &ledger)
Add8Call ==
    /\ frame.fn = "add8"
    /\ frame.ret = <<>>
    /\ ledger < MaxLedger
    /\ LET r == add8(frame.arg[1], frame.arg[2], ledger)
       IN  /\ frame' = [frame EXCEPT !.ret = <<r.ret>>]
           /\ ledger' = r.landauer
    /\ UNCHANGED <<arena, last_line, stack, sp, nsub, compiled>>

NextCodec == Encode8Call \/ Decode8Call \/ Add8Call

SpecCodec == InitCodec /\ [][NextCodec]_vars

(* ---------- claims about the arena and the micro-JIT -------------------- *)
\* What tokenizing the text t into an empty buffer yields.
Tokens(t) == jit_scan(t, 1, BlankLine).bc

\* C1 (cache invalidation): whenever compile_line has just run on a slot
\* whose text differed from the text the slot was last compiled with, the
\* stored hash is the hash of the new text and the instruction buffer is
\* the tokenization of the new text alone.
C1_CacheInvalidation ==
    (frame.fn = "jit_line" /\ frame.ret.changed) =>
        LET L == arena[frame.arg[1]]
        IN  /\ L.hash = djb_hash(L.text, Len(L.text))
            /\ L.bc = Tokens(L.text)
            /\ L.bc_len = Len(Tokens(L.text))

\* C2 (cache hit): a compile_line call on a slot whose text is the text of
\* the slot's previous compile_line call does not enter the tokenizer and
\* leaves the instruction buffer and code_len as they were.
C2_CacheHit ==
    [][\A s \in Slots :
          (frame'.fn = "jit_line" /\ frame'.arg = <<s>> /\ compiled[s] = arena[s].text)
              => /\ ~frame'.ret.tokenized
                 /\ arena'[s].bc = arena[s].bc
                 /\ arena'[s].bc_len = arena[s].bc_len]_vars

\* C2's case: a second compile_line in a row on a slot with a non-empty buffer.
C2_Witness ==
    /\ frame.fn = "jit_line"
    /\ ~frame.ret.changed
    /\ ~frame.ret.tokenized
    /\ arena[frame.arg[1]].bc_len > 0

\* The slots that have received a text through submit_line.
Populated == {s \in Slots : s < nsub}

\* C3 (recompile_all): when recompile_all has just returned, the stack
\* pointer is 0 and every populated slot was compiled, in index order, so
\* that its stored hash is the hash of its current text.
C3_RecompileAll ==
    frame.fn = "patch_vm" =>
        /\ sp = 0
        /\ \A s \in Populated :
              /\ \E k \in DOMAIN frame.ret : frame.ret[k] = s
              /\ arena[s].hash = djb_hash(arena[s].text, Len(arena[s].text))
        /\ \A j, k \in DOMAIN frame.ret : j < k => frame.ret[j] < frame.ret[k]

\* C4 (corpus wraparound): the slot index stays within the arena, the k-th
\* submitted line (from 0) goes to slot k mod capacity, and a submission
\* never fails to store its text.
C4_Wraparound ==
    /\ last_line \in Slots
    /\ last_line = nsub % BUF_LINES
    /\ frame.fn \in {"submit_line", "repl"} =>
          /\ frame.arg[1] = (nsub - 1) % BUF_LINES
          /\ arena[frame.arg[1]].text = frame.arg[2]

\* C4's case: the (capacity+1)-th line has just replaced, in slot 0, the
\* first line, which had been compiled there.
C4_Witness ==
    /\ nsub = BUF_LINES + 1
    /\ frame.fn = "submit_line"
    /\ frame.arg[1] = 0
    /\ compiled[0] # NoText
    /\ compiled[0] # arena[0].text
    /\ arena[0].text = frame.arg[2]

(* ---------- claims about the VM ------------------------------------------ *)
\* C5 (underflow abort): when the loop of vm_run_line is at an ADD with
\* fewer than 2 live values, its next step leaves the stack, the stack
\* pointer and the ledger as they are and ends the run at that instruction;
\* once a run has ended, nothing of the buffer is executed any more.
C5_UnderflowAbort ==
    [][/\ (/\ Running
           /\ frame.i < RunLine.bc_len
           /\ RunLine.bc[frame.i + 1] = OP_POSIT_ADD
           /\ sp < 2)
          => /\ stack' = stack
             /\ sp' = sp
             /\ ledger' = ledger
             /\ frame'.ret = <<"break">>
             /\ frame'.i = frame.i
       /\ (frame.fn = "vm_run_line" /\ frame.ret # <<>>)
          => UNCHANGED <<stack, sp, ledger, frame>>]_vars

\* C5's case: a run stopped at an ADD with one live value, a MOMENT next
\* in the buffer left unexecuted.
C5_Witness ==
    /\ frame.fn = "vm_run_line"
    /\ frame.ret = <<"break">>
    /\ sp = 1
    /\ frame.i + 2 <= RunLine.bc_len
    /\ RunLine.bc[frame.i + 1] = OP_POSIT_ADD
    /\ RunLine.bc[frame.i + 2] = OP_QUINE_MOMENT
    /\ ledger = frame.i

(* ---------- claims about the tokenizer ---------------------------------- *)
\* The opcodes of the longest leading run of keyword pieces of ps from the
\* k-th on, spaces and tabs between them skipped.
RECURSIVE LeadingRun(_, _)
LeadingRun(ps, k) ==
    IF k > Len(ps) THEN <<>>
    ELSE IF ps[k] = KW_ADD THEN <<1>> \o LeadingRun(ps, k + 1)
    ELSE IF ps[k] = KW_QUINE THEN <<32>> \o LeadingRun(ps, k + 1)
    ELSE IF ps[k] \in {<<32>>, <<9>>} THEN LeadingRun(ps, k + 1)
    ELSE <<>>

\* A jit_line call on generated text has returned.
JitDone == frame.fn = "jit_line" /\ Len(frame.arg) = 2 /\ frame.ret # <<>>

TextAddQuineAdd == <<97, 100, 100, 32, 113, 117, 105, 110, 101, 32, 97, 100, 100>>
TextAddx == <<97, 100, 100, 120>>

\* C6 (tokenization): on a cache miss the instruction buffer is exactly
\* the opcode sequence of the longest leading run of keywords of the text,
\* "add" giving ADD (0x01) and "quine" MOMENT (0x20), spaces and tabs
\* skipped before each token; "add quine add" gives [ADD, MOMENT, ADD].
C6_Tokenization ==
    (JitDone /\ frame.ret.tokenized) =>
        LET L == arena[frame.arg[1]]
        IN  /\ L.bc = LeadingRun(frame.arg[2], 1)
            /\ L.bc_len = Len(L.bc)
            /\ (L.text = TextAddQuineAdd => L.bc = <<1, 32, 1>>)

\* C6's case: "add quine add" has been compiled.
C6_Witness ==
    /\ JitDone
    /\ frame.ret.tokenized
    /\ arena[frame.arg[1]].text = TextAddQuineAdd
    /\ arena[frame.arg[1]].bc = <<1, 32, 1>>

\* C7 as claimed (no partial-keyword matching): compiling "addx" yields
\* the empty instruction sequence.
C7_NoPartialKeyword ==
    (JitDone /\ arena[frame.arg[1]].text = TextAddx) => arena[frame.arg[1]].bc_len = 0

\* C7 amended (prefix matching): compiling "addx" yields the single
\* instruction ADD, code_len 1; the keyword is matched as a prefix and
\* tokenization stops at the "x".
C7_PrefixMatch ==
    (JitDone /\ arena[frame.arg[1]].text = TextAddx) =>
        /\ arena[frame.arg[1]].bc = <<OP_POSIT_ADD>>
        /\ arena[frame.arg[1]].bc_len = 1

\* C7's case: "addx" has been compiled on a cache miss.
C7_Witness ==
    /\ JitDone
    /\ frame.ret.tokenized
    /\ arena[frame.arg[1]].text = TextAddx
    /\ arena[frame.arg[1]].bc_len = 1

(* ---------- claims about the codec -------------------------------------- *)
\* C8 (round trip): for x = k/16, k in -128..127, encode8(x) is the byte
\* whose signed value is k, and decode8 of it is x.
C8_RoundTrip ==
    (/\ frame.fn = "encode8"
     /\ frame.ret # <<>>
     /\ frame.arg[1] % Den = 0
     /\ frame.arg[1] >= -128 * Den
     /\ frame.arg[1] <= 127 * Den)
    => /\ ToInt8(frame.ret[1]) * Den = frame.arg[1]
       /\ (Len(frame.ret) = 2 => frame.ret[2] = frame.arg[1])

\* C9 (saturating addition): add8(a, b, ledger) returns
\* min(127, max(-128, a + b)) over the signed values of a and b, and the
\* ledger is one more than at the call; add8(127, 1) returns 127.
C9_SaturatingAdd ==
    (frame.fn = "add8" /\ frame.ret # <<>>) =>
        LET a == IF frame.arg[1] >= 128 THEN frame.arg[1] - 256 ELSE frame.arg[1]
            b == IF frame.arg[2] >= 128 THEN frame.arg[2] - 256 ELSE frame.arg[2]
            r == IF frame.ret[1] >= 128 THEN frame.ret[1] - 256 ELSE frame.ret[1]
        IN  /\ frame.ret[1] \in 0..255
            /\ r = (IF a + b > 127 THEN 127 ELSE IF a + b < -128 THEN -128 ELSE a + b)
            /\ ledger = frame.arg[3] + 1
            /\ ((a = 127 /\ b = 1) => r = 127)

\* C9's case: add8(127, 1, ledger) has returned 127 with the ledger at 0 before.
C9_Witness ==
    /\ frame.fn = "add8"
    /\ frame.arg = <<127, 1, 0>>
    /\ frame.ret = <<127>>
    /\ ledger = 1

\* C10 (encoding saturation): for x with 16x within the int16_t range,
\* the signed value of encode8(x) is in [-128, 127], is 127 when
\* 16x >= 127 and -128 when 16x <= -129, and never has the sign opposite
\* to x's; encode8(100.0) is 127 and encode8(-100.0) is -128.
C10_EncodeSaturates ==
    (/\ frame.fn = "encode8"
     /\ frame.ret # <<>>
     /\ frame.arg[1] >= INT16_MIN * Den
     /\ frame.arg[1] <= INT16_MAX * Den)
    => LET x == frame.arg[1]
           r == IF frame.ret[1] >= 128 THEN frame.ret[1] - 256 ELSE frame.ret[1]
       IN  /\ frame.ret[1] \in 0..255
           /\ r \in -128..127
           /\ (x >= 127 * Den => r = 127)
           /\ (x <= -129 * Den => r = -128)
           /\ (x >= 0 => r >= 0)
           /\ (x <= 0 => r <= 0)
           /\ (x = 1600 * Den => r = 127)
           /\ (x = -1600 * Den => r = -128)

\* C10's case: encode8(100.0) has returned 127.
C10_Witness ==
    /\ frame.fn = "encode8"
    /\ frame.arg[1] = 1600 * Den
    /\ frame.ret # <<>>
    /\ frame.ret[1] = 127

(* ---------- further claims about the VM ---------------------------------- *)
\* C13 (ADD stack effect): when the loop of vm_run_line is at an ADD with
\* at least 2 live values, its next step decreases sp by exactly 1, makes
\* the new top the saturated sum of the former top two, leaves every
\* element below the new top as it was, raises the ledger by exactly 1
\* and goes on to the next instruction.
C13_AddEffect ==
    [][(/\ Running
        /\ frame.i < RunLine.bc_len
        /\ RunLine.bc[frame.i + 1] = OP_POSIT_ADD
        /\ sp >= 2)
       => LET top == IF stack[sp - 1] >= 128 THEN stack[sp - 1] - 256 ELSE stack[sp - 1]
              second == IF stack[sp - 2] >= 128 THEN stack[sp - 2] - 256 ELSE stack[sp - 2]
              sum == top + second
              sat == IF sum > 127 THEN 127 ELSE IF sum < -128 THEN -128 ELSE sum
          IN  /\ sp' = sp - 1
              /\ stack'[sp' - 1] = (sat + 256) % 256
              /\ \A k \in 0..(sp' - 2) : stack'[k] = stack[k]
              /\ ledger' = ledger + 1
              /\ frame'.i = frame.i + 1
              /\ frame'.ret = <<>>]_vars

\* C13's case: an ADD has just replaced the top two of three values by
\* their sum, saturated at 127, with the value below left in place.
C13_Witness ==
    /\ Running
    /\ frame.i = 1
    /\ RunLine.bc[1] = OP_POSIT_ADD
    /\ sp = 2
    /\ stack[0] = 128
    /\ stack[1] = 127
    /\ stack[2] = 127
    /\ ledger = 1

\* C14 (linear execution with silent stop): the loop of vm_run_line takes
\* its instructions left to right, one position further at every turn and
\* never past code_len; at a HALT or an unrecognized opcode it stops
\* without changing the stack, the stack pointer or the ledger; once
\* stopped nothing changes any more; and every run does stop.
C14_LinearSilentStop ==
    /\ [](frame.i <= RunLine.bc_len)
    /\ [][/\ Running
             => \/ frame'.ret = <<>> /\ frame'.i = frame.i + 1
                \/ frame'.ret # <<>> /\ frame'.i = frame.i
          /\ (/\ Running
              /\ frame.i < RunLine.bc_len
              /\ RunLine.bc[frame.i + 1] \notin {OP_POSIT_ADD, OP_QUINE_MOMENT})
             => /\ stack' = stack /\ sp' = sp /\ ledger' = ledger
                /\ frame'.ret = <<"break">>
          /\ ~Running => UNCHANGED <<stack, sp, ledger, frame>>]_vars
    /\ <>(~Running)

\* C14's case: the loop has stopped at a HALT that follows a MOMENT and
\* precedes an ADD two live values could have served.
C14_Witness ==
    /\ frame.fn = "vm_run_line"
    /\ frame.ret = <<"break">>
    /\ frame.i = 1
    /\ RunLine.bc = <<OP_QUINE_MOMENT, OP_HALT, OP_POSIT_ADD>>
    /\ sp = 2
    /\ ledger = 1

(* ---------- further claims about the API --------------------------------- *)
\* The number of MOMENT instructions of the buffer bc from position k
\* (1-based) up to its first ADD.
RECURSIVE MomentsBeforeAdd(_, _)
MomentsBeforeAdd(bc, k) ==
    IF k > Len(bc) \/ bc[k] = OP_POSIT_ADD
    THEN 0
    ELSE (IF bc[k] = OP_QUINE_MOMENT THEN 1 ELSE 0) + MomentsBeforeAdd(bc, k + 1)

\* C12 (ADD can never succeed): from the initial state the stack pointer
\* is 0 in every state; every execution of a line raises the ledger by
\* exactly the number of MOMENT instructions before the first ADD of the
\* executed buffer (the ADD aborts it), and no other call changes the
\* ledger, so the ledger is the total of those numbers.
C12_AddNeverSucceeds ==
    /\ [](sp = 0)
    /\ [][IF frame'.fn \in {"vm_run_line", "repl"}
          THEN ledger' = ledger + MomentsBeforeAdd(arena'[frame'.arg[1]].bc, 1)
          ELSE ledger' = ledger]_vars

\* C12's case: repl() has compiled and run "quine add": the MOMENT was
\* counted, the ADD aborted on the empty stack.
C12_Witness ==
    /\ frame.fn = "repl"
    /\ arena[frame.arg[1]].bc = <<OP_QUINE_MOMENT, OP_POSIT_ADD>>
    /\ ledger = 1
    /\ sp = 0

\* C15 (LineRecord invariant): every slot has code_len <= 128, an emit
\* into a full buffer leaves the line as it is, and the stored hash is the
\* hash of the text the slot held when jit_line was last called on it
\* (the zero of the zeroed arena when it never was).
C15_LineRecord ==
    /\ \A s \in Slots :
          /\ arena[s].bc_len <= BC_SZ
          /\ Len(arena[s].bc) = arena[s].bc_len
          /\ arena[s].hash = IF compiled[s] = NoText
                             THEN <<0, 0>>
                             ELSE djb_hash(compiled[s], strlen(compiled[s]))
    /\ LET full == [BlankLine EXCEPT !.bc = [k \in 1..BC_SZ |-> OP_POSIT_ADD],
                                     !.bc_len = BC_SZ]
       IN  emit_byte(full, OP_QUINE_MOMENT) = full

\* C15's case: a slot compiled from one text has since received another
\* text with another hash and was not compiled again: its hash is stale.
C15_Witness ==
    \E s \in Slots :
        /\ compiled[s] # NoText
        /\ arena[s].text # compiled[s]
        /\ arena[s].hash # djb_hash(arena[s].text, strlen(arena[s].text))
        /\ arena[s].bc_len > 0

\* C17 (compiled buffers hold only executable opcodes): every byte below
\* code_len of every slot is ADD or MOMENT, and running any slot on the
\* current VM leaves the loop before code_len only at an ADD that finds
\* fewer than 2 live values.
C17_OnlyExecutableOpcodes ==
    \A s \in Slots :
        /\ \A k \in 1..arena[s].bc_len :
              arena[s].bc[k] \in {OP_POSIT_ADD, OP_QUINE_MOMENT}
        /\ LET stop == vm_stop_from(arena[s], 0, VM)
           IN  stop.i < arena[s].bc_len
               => /\ arena[s].bc[stop.i + 1] = OP_POSIT_ADD
                  /\ stop.vm.sp < 2

\* C17's case: execute_line ran a compiled [MOMENT, ADD] and stopped at
\* the ADD.
C17_Witness ==
    /\ frame.fn = "vm_run_line"
    /\ arena[frame.arg[1]].bc = <<OP_QUINE_MOMENT, OP_POSIT_ADD>>
    /\ frame.ret[2] = 1
    /\ vm_stop_from(arena[frame.arg[1]], 0, VM).i = 1

(* ---------- claims about the API on a pre-seeded stack ------------------ *)
\* What running the buffer bc from position k (1-based) on a stack of
\* depth live values does before its first stop: the number of MOMENTs
\* and successful ADDs (cost), and the number of successful ADDs (pops).
RECURSIVE RunEffect(_, _, _)
RunEffect(bc, k, depth) ==
    IF k > Len(bc)
    THEN [cost |-> 0, pops |-> 0]
    ELSE IF bc[k] = OP_QUINE_MOMENT
    THEN LET r == RunEffect(bc, k + 1, depth)
         IN  [cost |-> r.cost + 1, pops |-> r.pops]
    ELSE IF bc[k] = OP_POSIT_ADD /\ depth >= 2
    THEN LET r == RunEffect(bc, k + 1, depth - 1)
         IN  [cost |-> r.cost + 1, pops |-> r.pops + 1]
    ELSE [cost |-> 0, pops |-> 0]

\* The call a step made, and the slot an executing call ran.
Executes == frame'.fn \in {"vm_run_line", "repl"}
ExecutedLine == arena'[frame'.arg[1]]

\* C11 (ledger accounting): no step lowers the ledger; a step that
\* executes a line raises it by exactly the number of MOMENTs and
\* successful ADDs run before the first stop; submit_line, jit_line and
\* patch_vm steps leave it unchanged.
C11_LedgerAccounting ==
    [][/\ ledger' >= ledger
       /\ IF Executes
          THEN ledger' = ledger + RunEffect(ExecutedLine.bc, 1, sp).cost
          ELSE ledger' = ledger]_vars

\* C11's case: execute_line ran [ADD] on two live values: the ADD
\* succeeded and was counted, and later calls kept the count.
C11_Witness ==
    /\ frame.fn = "patch_vm"
    /\ ledger = 1
    /\ stack[0] = 127
    /\ stack[1] = 127
    /\ \E s \in Slots : arena[s].bc = <<OP_POSIT_ADD>>

\* C16 (frame of compilation and of the stack-pointer reset): a jit_line
\* step on slot i leaves slot i's text, every other slot, last_line, the
\* stack, sp and the ledger as they were; patch_vm sets sp to 0 and is
\* the only step that takes sp from a positive value to 0; a step that
\* executes a line starts from the sp the previous step left and lowers
\* it only by its successful ADDs; submit_line leaves sp alone.
C16_CompileFrameAndReset ==
    [][/\ frame'.fn = "jit_line"
          => /\ arena'[frame'.arg[1]].text = arena[frame'.arg[1]].text
             /\ \A t \in Slots \ {frame'.arg[1]} : arena'[t] = arena[t]
             /\ UNCHANGED <<last_line, stack, sp, ledger>>
       /\ frame'.fn = "patch_vm" => sp' = 0
       /\ (sp > 0 /\ sp' = 0) => frame'.fn = "patch_vm"
       /\ Executes => sp' = sp - RunEffect(ExecutedLine.bc, 1, sp).pops
       /\ frame'.fn = "submit_line" => sp' = sp]_vars

\* C16's case: a line was executed and popped one of two live values,
\* then jit_line tokenized another slot and sp is still 1.
C16_Witness ==
    /\ frame.fn = "jit_line"
    /\ frame.ret.tokenized
    /\ sp = 1
    /\ ledger = 1
    /\ stack[0] = 127

\* C18 (stack bounds): sp is within 0..256 in every state; the cell
\* read as top of stack has an index within 0..255, it is cell sp-1, or
\* cell 0 when sp is 0, and the value reported is its content; the ADDs
\* of an executing step read and write cells between the new sp - 1 and
\* the old sp - 1, all within 0..255.
C18_StackBounds ==
    /\ [](/\ sp \in 0..STACK_SZ
          /\ (IF sp > 0 THEN sp - 1 ELSE 0) \in 0..(STACK_SZ - 1)
          /\ frame.fn = "vm_run_line"
             => frame.ret[1] = IF sp = 0 THEN stack[0] ELSE stack[sp - 1]
          /\ frame.fn = "repl"
             => frame.ret.top = IF sp = 0 THEN stack[0] ELSE stack[sp - 1])
    /\ [][(Executes /\ sp' < sp)
          => /\ sp' - 1 >= 0
             /\ sp - 1 <= STACK_SZ - 1]_vars

\* C18's case: an ADD ran on a full stack: it read cells 255 and 254,
\* wrote cell 254, and that cell was reported as the top.
C18_Witness ==
    /\ frame.fn = "vm_run_line"
    /\ sp = STACK_SZ - 1
    /\ stack[STACK_SZ - 2] = 127
    /\ stack[STACK_SZ - 1] = 127
    /\ frame.ret = <<127, 1>>

====
